---- MODULE Spec2Model ----
(***************************************************************************)
(* Model of src/parsers.rs: the ABNF character classifier (CharABNF for    *)
(* u8), the line extractor extract_header_lines and the field splitter     *)
(* extract_header_name_value with its FIELD_VALUE_WITH_OWS pattern.        *)
(*                                                                         *)
(* Bytes are the integers 0..255, byte strings are sequences of bytes.     *)
(* Positions in a byte string are 1-based; a position of Len(h)+1 is the   *)
(* end of the haystack.                                                    *)
(***************************************************************************)
EXTENDS Integers, Sequences, FiniteSets, TLC

VARIABLES
    pc,            \* position of the caller: which call has been made
    c,             \* the byte handed to a CharABNF predicate
    verdict,       \* the predicate called and the bool it returned
    lines,         \* the logical lines the caller assembles a header block from
    headers,       \* the header block handed to extract_header_lines
    header_lines,  \* the Vec<&[u8]> extract_header_lines returned
    header_line,   \* the line handed to extract_header_name_value
    result,        \* the Result extract_header_name_value returned
    first          \* the Result of the first parse, kept while the pair is re-parsed

vars == <<pc, c, verdict, lines, headers, header_lines, header_line, result, first>>

(***************************************************************************)
(* Bounds of the model.                                                    *)
(***************************************************************************)
MaxLineLen == 5     \* longest header line handed to extract_header_name_value
MaxElemLen == 2     \* longest logical line of a header block
MaxLines == 2       \* most logical lines of a header block

(***************************************************************************)
(* Bytes named in the source.                                              *)
(***************************************************************************)
MaxByte == 255
COLON == 58
LF == 10
CR == 13

Byte == 0..MaxByte

RECURSIVE SeqsUpTo(_, _)
SeqsUpTo(A, n) ==
    IF n = 0 THEN {<<>>}
    ELSE LET shorter == SeqsUpTo(A, n - 1)
         IN  shorter \cup {Append(s, a) : s \in {t \in shorter : Len(t) = n - 1}, a \in A}

(***************************************************************************)
(* impl CharABNF for u8                                                    *)
(***************************************************************************)
\* A-Z / a-z with the upper bound of the first range one too far (0x5b).
is_alpha_wide(b) == b \in ((65..91) \cup (97..122))

is_alpha(b) == b \in ((65..90) \cup (97..122))

is_digit(b) == b \in 48..57

is_ctl(b) == b \in ((0..31) \cup (127..127))

is_htab(b) == b = 9

is_sp(b) == b = 32

is_vchar(b) == b \in 33..126

is_wsp(b) == b = 32 \/ b = 9

\* b"!#$%&'*+-.^_`|~"
TcharSymbols == {33, 35, 36, 37, 38, 39, 42, 43, 45, 46, 94, 95, 96, 124, 126}

is_tchar(b) == is_alpha(b) \/ is_digit(b) \/ b \in TcharSymbols

(***************************************************************************)
(* pub enum ParseError, and the Result of extract_header_name_value.       *)
(* A Result is a record of one shape: kind is "Ok" or the error's name;    *)
(* name and value are the two returned slices (empty on an error).         *)
(***************************************************************************)
ParseError == {"InvalidHeaderKeyChar", "InvalidHeaderValueChar", "ColonNotFound", "InvalidHeaderValue"}

Ok(key, value) == [kind |-> "Ok", name |-> key, value |-> value]

Err(e) == [kind |-> e, name |-> <<>>, value |-> <<>>]

NoResult == [kind |-> "None", name |-> <<>>, value |-> <<>>]

(***************************************************************************)
(* extract_header_lines                                                    *)
(***************************************************************************)
\* headers.split(|&c| c == b'\n'): every segment between LF bytes, the empty
\* ones included; n LF bytes give n + 1 segments.
RECURSIVE split(_, _, _)
split(s, i, cur) ==
    IF i > Len(s) THEN <<cur>>
    ELSE IF s[i] = LF THEN <<cur>> \o split(s, i + 1, <<>>)
    ELSE split(s, i + 1, Append(cur, s[i]))

\* .filter(|&line| line.len() > 0)
filter(segments) == SelectSeq(segments, LAMBDA line : Len(line) > 0)

\* The for loop without its CR branch: every segment is pushed as it is.
pushed_whole(line) == line

\* The body of the for loop: the slice pushed for one (non-empty) segment.
pushed(line) ==
    IF line[Len(line)] = CR THEN SubSeq(line, 1, Len(line) - 1) ELSE line

extract_header_lines(block) ==
    LET kept == filter(split(block, 1, <<>>))
    IN  [i \in 1..Len(kept) |-> pushed(kept[i])]

(***************************************************************************)
(* FIELD_VALUE_WITH_OWS, as regex::bytes::Regex matches it.                *)
(*                                                                         *)
(* The pattern is compiled with Regex::new and no flags, so Unicode mode   *)
(* is on: \x80-\xff in a class is the code points U+0080..U+00FF, each     *)
(* matched as its two-byte UTF-8 encoding (C2 80..C2 BF, C3 80..C3 BF),    *)
(* and $ matches at the end of the haystack only. The match is the first   *)
(* in backtracking priority (greedy repetitions try the longer match       *)
(* first), and a capture group under a repetition keeps the span of its    *)
(* last iteration.                                                         *)
(*                                                                         *)
(* A capture is <<>> (the group took no part) or <<s, e>>: bytes s..e-1.   *)
(***************************************************************************)
NoMatch == [matched |-> FALSE, group1 |-> <<>>]

Match(cap) == [matched |-> TRUE, group1 |-> cap]

\* The class with its first range one too far: [\x21-\x7f\x80-\xff].
FieldVchar_del(h, i) ==
    IF i > Len(h) THEN 0
    ELSE IF h[i] \in 33..127 THEN 1
    ELSE IF h[i] \in 194..195 /\ i + 1 <= Len(h) /\ h[i + 1] \in 128..191 THEN 2
    ELSE 0

\* [\x21-\x7e\x80-\xff] at position i: the number of bytes it consumes, 0 if
\* it does not match there.
FieldVchar(h, i) ==
    IF i > Len(h) THEN 0
    ELSE IF h[i] \in 33..126 THEN 1
    ELSE IF h[i] \in 194..195 /\ i + 1 <= Len(h) /\ h[i + 1] \in 128..191 THEN 2
    ELSE 0

\* [ \t[\x21-\x7e\x80-\xff]] at position i, likewise.
OwsOrFieldVchar(h, i) ==
    IF i > Len(h) THEN 0
    ELSE IF h[i] = 32 \/ h[i] = 9 THEN 1
    ELSE FieldVchar(h, i)

\* [ \t[\x21-\x7e\x80-\xff]]+ from position p: the positions it can end at,
\* shortest first.
RECURSIVE RunEnds(_, _)
RunEnds(h, p) ==
    LET n == OwsOrFieldVchar(h, p)
    IN  IF n = 0 THEN <<>> ELSE <<p + n>> \o RunEnds(h, p + n)

\* [ \t]*$ at position i, with group 1 as captured so far.
TrailingOws(h, i, cap) ==
    IF \A k \in i..Len(h) : h[k] = 32 \/ h[k] = 9 THEN Match(cap) ELSE NoMatch

\* ( field-vchar ( 1*( SP / HTAB / field-vchar ) field-vchar )? )* at position
\* i, then the rest of the pattern. Another iteration is tried before leaving
\* the repetition; within an iteration the optional group is tried before it
\* is skipped, its run longest first.
RECURSIVE Repetition(_, _, _), Interior(_, _, _, _)
Repetition(h, i, cap) ==
    LET n == FieldVchar(h, i)
    IN  IF n = 0 THEN TrailingOws(h, i, cap)
        ELSE LET ends == RunEnds(h, i + n)
                 long == Interior(h, i, ends, Len(ends))
             IN  IF long.matched THEN long
                 ELSE LET short == Repetition(h, i + n, <<i, i + n>>)
                      IN  IF short.matched THEN short ELSE TrailingOws(h, i, cap)

\* The optional group of the iteration that starts at i, its run ending at
\* ends[k], then at the shorter ends.
Interior(h, i, ends, k) ==
    IF k = 0 THEN NoMatch
    ELSE LET q == ends[k]
             n == FieldVchar(h, q)
             rest == IF n = 0 THEN NoMatch ELSE Repetition(h, q + n, <<i, q + n>>)
         IN  IF rest.matched THEN rest ELSE Interior(h, i, ends, k - 1)

\* ^[ \t]* taking k bytes, then fewer.
RECURSIVE LeadingOws(_, _)
LeadingOws(h, k) ==
    LET rest == Repetition(h, k + 1, <<>>)
    IN  IF rest.matched THEN rest
        ELSE IF k = 0 THEN NoMatch
        ELSE LeadingOws(h, k - 1)

\* The longest run of SP / HTAB the haystack starts with.
RECURSIVE OwsPrefix(_, _)
OwsPrefix(h, k) ==
    IF k < Len(h) /\ (h[k + 1] = 32 \/ h[k + 1] = 9) THEN OwsPrefix(h, k + 1) ELSE k

\* re.captures(haystack)
captures(haystack) == LeadingOws(haystack, OwsPrefix(haystack, 0))

(***************************************************************************)
(* extract_header_name_value                                               *)
(***************************************************************************)
\* A scan that looks for the colon first and validates the name after it.
scan_colon_first(line, i) ==
    IF \A k \in i..Len(line) : line[k] # COLON
    THEN [colon_index |-> 0, error |-> "ColonNotFound"]
    ELSE LET at == CHOOSE k \in i..Len(line) :
                       line[k] = COLON /\ \A j \in i..(k - 1) : line[j] # COLON
         IN  IF \E j \in i..(at - 1) : ~is_tchar(line[j])
             THEN [colon_index |-> 0, error |-> "InvalidHeaderKeyChar"]
             ELSE [colon_index |-> at, error |-> "None"]

\* The for loop over header_line.iter().enumerate(), from byte i on: the
\* index of the first colon, or the error the loop (or the ok_or after it)
\* returns.
RECURSIVE scan(_, _)
scan(line, i) ==
    IF i > Len(line) THEN [colon_index |-> 0, error |-> "ColonNotFound"]
    ELSE IF line[i] = COLON THEN [colon_index |-> i, error |-> "None"]
    ELSE IF ~is_tchar(line[i]) THEN [colon_index |-> 0, error |-> "InvalidHeaderKeyChar"]
    ELSE scan(line, i + 1)

\* &header_line[..=colon_index]: the key with the colon left on it.
key_slice_inclusive(line, colon_index) == SubSeq(line, 1, colon_index)

\* &header_line[..colon_index]
key_slice(line, colon_index) == SubSeq(line, 1, colon_index - 1)

\* &header_line[colon_index + 1..]
haystack_slice(line, colon_index) == SubSeq(line, colon_index + 1, Len(line))

extract_header_name_value(line) ==
    LET found == scan(line, 1)
    IN  IF found.error # "None" THEN Err(found.error)
        ELSE LET haystack == haystack_slice(line, found.colon_index)
                 capture == captures(haystack)
             IN  IF ~capture.matched THEN Err("InvalidHeaderValue")
                 ELSE IF capture.group1 = <<>> THEN Err("InvalidHeaderValue")
                 ELSE Ok(key_slice(line, found.colon_index),
                         SubSeq(haystack, capture.group1[1], capture.group1[2] - 1))

(***************************************************************************)
(* The inputs the callers draw.                                            *)
(***************************************************************************)
\* Bytes of a header line: a tchar, the colon, SP, HTAB, the CTL bytes LF and
\* DEL, the two bytes of U+00E9 in UTF-8 (C3 A9), and FF.
LineBytes == {97, COLON, 32, 9, LF, 127, 195, 169, MaxByte}

\* Bytes of a header block: a byte of a line, CR and LF.
BlockBytes == {97, CR, LF}

NoVerdict == [predicate |-> "None", value |-> FALSE]

\* Every element followed by the terminator, as the tests write their blocks.
RECURSIVE Join(_, _)
Join(elems, terminator) ==
    IF elems = <<>> THEN <<>>
    ELSE Head(elems) \o terminator \o Join(Tail(elems), terminator)

(***************************************************************************)
(* The character classifier called on one byte.                            *)
(***************************************************************************)
InitChar ==
    /\ pc = "start"
    /\ c \in Byte
    /\ verdict = NoVerdict
    /\ lines = <<>> /\ headers = <<>> /\ header_lines = <<>>
    /\ header_line = <<>> /\ result = NoResult /\ first = NoResult

Classified(predicate, value) ==
    /\ pc = "start"
    /\ pc' = "classified"
    /\ verdict' = [predicate |-> predicate, value |-> value]
    /\ UNCHANGED <<c, lines, headers, header_lines, header_line, result, first>>

CallIsAlpha == Classified("is_alpha", is_alpha(c))

CallIsDigit == Classified("is_digit", is_digit(c))

CallIsCtl == Classified("is_ctl", is_ctl(c))

CallIsVchar == Classified("is_vchar", is_vchar(c))

CallIsWsp == Classified("is_wsp", is_wsp(c))

CallIsTchar == Classified("is_tchar", is_tchar(c))

NextChar ==
    \/ CallIsAlpha
    \/ CallIsDigit
    \/ CallIsCtl
    \/ CallIsVchar
    \/ CallIsWsp
    \/ CallIsTchar

SpecChar == InitChar /\ [][NextChar]_vars

(***************************************************************************)
(* The line extractor called on a header block built from logical lines.   *)
(***************************************************************************)
InitLines ==
    /\ pc = "start"
    /\ lines \in SeqsUpTo(SeqsUpTo(BlockBytes, MaxElemLen), MaxLines)
    /\ headers = <<>> /\ header_lines = <<>>
    /\ c = 0 /\ verdict = NoVerdict
    /\ header_line = <<>> /\ result = NoResult /\ first = NoResult

\* b"Content-Type: text/html\r\nContent-Length: 1234\r\n"
BuildCrLf ==
    /\ pc = "start"
    /\ headers' = Join(lines, <<CR, LF>>)
    /\ pc' = "built"
    /\ UNCHANGED <<c, verdict, lines, header_lines, header_line, result, first>>

\* b"Content-Type: text/html\nContent-Length: 1234\n"
BuildLf ==
    /\ pc = "start"
    /\ headers' = Join(lines, <<LF>>)
    /\ pc' = "built"
    /\ UNCHANGED <<c, verdict, lines, header_lines, header_line, result, first>>

ExtractHeaderLines ==
    /\ pc = "built"
    /\ header_lines' = extract_header_lines(headers)
    /\ pc' = "extracted"
    /\ UNCHANGED <<c, verdict, lines, headers, header_line, result, first>>

NextLines ==
    \/ BuildCrLf
    \/ BuildLf
    \/ ExtractHeaderLines

SpecLines == InitLines /\ [][NextLines]_vars

(***************************************************************************)
(* The field splitter called on a header line, and called again on the     *)
(* pair it returned, re-joined as name ":" value.                          *)
(***************************************************************************)
Init ==
    /\ pc = "start"
    /\ header_line \in SeqsUpTo(LineBytes, MaxLineLen)
    /\ result = NoResult /\ first = NoResult
    /\ c = 0 /\ verdict = NoVerdict
    /\ lines = <<>> /\ headers = <<>> /\ header_lines = <<>>

ExtractHeaderNameValue ==
    /\ pc \in {"start", "rejoined"}
    /\ result' = extract_header_name_value(header_line)
    /\ pc' = IF pc = "start" THEN "parsed" ELSE "reparsed"
    /\ UNCHANGED <<c, verdict, lines, headers, header_lines, header_line, first>>

Rejoin ==
    /\ pc = "parsed"
    /\ result.kind = "Ok"
    /\ header_line' = result.name \o <<COLON>> \o result.value
    /\ first' = result
    /\ result' = NoResult
    /\ pc' = "rejoined"
    /\ UNCHANGED <<c, verdict, lines, headers, header_lines>>

Next ==
    \/ ExtractHeaderNameValue
    \/ Rejoin

Spec == Init /\ [][Next]_vars

(***************************************************************************)
(* The grammar the properties are stated in (RFC 7230 section 3.2, RFC     *)
(* 5234 appendix B.1), written out independently of the code above.        *)
(***************************************************************************)
Range(s) == {s[i] : i \in 1..Len(s)}

Alpha == (65..90) \cup (97..122)

Digit == 48..57

\* ! # $ % & ' * + - . ^ _ ` | ~
TokenSymbols == {33, 35, 36, 37, 38, 39, 42, 43, 45, 46, 94, 95, 96, 124, 126}

Tchar == Alpha \cup Digit \cup TokenSymbols

\* DQUOTE ( ) , / : ; < = > ? @ [ \ ] { }
Delimiters == {34, 40, 41, 44, 47, 58, 59, 60, 61, 62, 63, 64, 91, 92, 93, 123, 125}

Ctl == (0..31) \cup {127}

Vchar == 33..126

ObsText == 128..255

Ows == {32, 9}

HasColon(line) == COLON \in Range(line)

FirstColon(line) == CHOOSE i \in 1..Len(line) : line[i] = COLON /\ \A j \in 1..(i - 1) : line[j] # COLON

\* The bytes before the first colon; the whole line if it has none.
NamePart(line) == IF HasColon(line) THEN SubSeq(line, 1, FirstColon(line) - 1) ELSE line

\* The bytes after the first colon.
Remainder(line) == SubSeq(line, FirstColon(line) + 1, Len(line))

RECURSIVE StripLeft(_), StripRight(_)
StripLeft(s) == IF s # <<>> /\ Head(s) \in Ows THEN StripLeft(Tail(s)) ELSE s

StripRight(s) == IF s # <<>> /\ s[Len(s)] \in Ows THEN StripRight(SubSeq(s, 1, Len(s) - 1)) ELSE s

\* The remainder without its leading and trailing OWS.
StripOws(s) == StripRight(StripLeft(s))

TokenName(line) == HasColon(line) /\ NamePart(line) # <<>> /\ Range(NamePart(line)) \subseteq Tchar

\* extract_header_name_value has returned for header_line.
Parsed == pc \in {"parsed", "reparsed"}

(***************************************************************************)
(* C1: for a line N ":" W1 V W2 with N a non-empty token, W1 and W2 runs   *)
(* of SP/HTAB and V a non-empty string of visible ASCII, SP and HTAB that  *)
(* begins and ends with a visible byte, the result is Ok((N, V)): the      *)
(* whole of V, whatever its length.                                        *)
(***************************************************************************)
C1_WholeValueReturned ==
    (/\ Parsed
     /\ TokenName(header_line)
     /\ StripOws(Remainder(header_line)) # <<>>
     /\ Range(Remainder(header_line)) \subseteq (Vchar \cup Ows))
    => result = Ok(NamePart(header_line), StripOws(Remainder(header_line)))

(***************************************************************************)
(* C2: no slice returned by extract_header_lines is empty.                 *)
(***************************************************************************)
C2_NoEmptyLine ==
    pc = "extracted" => \A i \in 1..Len(header_lines) : header_lines[i] # <<>>

(***************************************************************************)
(* C3: for a line N ":" W with N a non-empty token and W a (possibly       *)
(* empty) run of SP/HTAB, the result is Ok((N, "")).                       *)
(***************************************************************************)
C3_EmptyValueParses ==
    (/\ Parsed
     /\ TokenName(header_line)
     /\ Range(Remainder(header_line)) \subseteq Ows)
    => result = Ok(NamePart(header_line), <<>>)

(***************************************************************************)
(* C4: a line whose first byte is ":" gives Err(InvalidHeaderKeyChar);     *)
(* equivalently the name of an Ok result has at least one byte.            *)
(***************************************************************************)
C4_EmptyNameRejected ==
    Parsed =>
        /\ (header_line # <<>> /\ header_line[1] = COLON) => result = Err("InvalidHeaderKeyChar")
        /\ result.kind = "Ok" => Len(result.name) >= 1

(***************************************************************************)
(* C5: for a line N ":" R with N a non-empty token and R holding a byte    *)
(* that is neither SP, HTAB, visible ASCII nor obs-text (a CTL other than  *)
(* HTAB), at any position of R, the result is Err(InvalidHeaderValue).     *)
(***************************************************************************)
C5_CtlInValueRejected ==
    (/\ Parsed
     /\ TokenName(header_line)
     /\ \E b \in Range(Remainder(header_line)) : b \notin (Ows \cup Vchar \cup ObsText))
    => result = Err("InvalidHeaderValue")

\* A line whose only forbidden byte is an LF that ends it has been rejected.
C5_Witness ==
    /\ pc = "parsed"
    /\ TokenName(header_line)
    /\ Len(Remainder(header_line)) >= 2
    /\ header_line[Len(header_line)] = LF
    /\ \A i \in 1..(Len(Remainder(header_line)) - 1) : Remainder(header_line)[i] \in Vchar
    /\ result = Err("InvalidHeaderValue")

(***************************************************************************)
(* C6: with P the bytes before the first colon (the whole line if it has   *)
(* none): a non-tchar byte in P gives Err(InvalidHeaderKeyChar) whatever   *)
(* follows; otherwise a line with no colon gives Err(ColonNotFound); so    *)
(* ColonNotFound is returned exactly when the line has no colon and all    *)
(* its bytes are tchars.                                                   *)
(***************************************************************************)
C6_NameScanErrors ==
    Parsed =>
        /\ ~(Range(NamePart(header_line)) \subseteq Tchar) => result = Err("InvalidHeaderKeyChar")
        /\ (Range(NamePart(header_line)) \subseteq Tchar /\ ~HasColon(header_line))
               => result = Err("ColonNotFound")
        /\ result = Err("ColonNotFound")
               <=> (~HasColon(header_line) /\ Range(header_line) \subseteq Tchar)

\* A bad name byte wins over a colon later in the line and over a value that
\* is itself invalid.
C6_Witness ==
    /\ pc = "parsed"
    /\ HasColon(header_line)
    /\ ~(Range(NamePart(header_line)) \subseteq Tchar)
    /\ LF \in Range(Remainder(header_line))
    /\ result = Err("InvalidHeaderKeyChar")

(***************************************************************************)
(* C7: for a sequence S of non-empty byte strings with no LF that do not   *)
(* end in CR, the block of its elements each followed by CR LF and the     *)
(* block of its elements each followed by LF both give exactly S.          *)
(***************************************************************************)
LogicalLine(e) == e # <<>> /\ LF \notin Range(e) /\ e[Len(e)] # CR

C7_TerminatorsAgree ==
    (pc = "extracted" /\ \A i \in 1..Len(lines) : LogicalLine(lines[i]))
    => header_lines = lines

\* Two logical lines, one of them holding an interior CR, came back from the
\* CR LF block.
C7_Witness ==
    /\ pc = "extracted"
    /\ Len(lines) = 2
    /\ \A i \in 1..Len(lines) : LogicalLine(lines[i])
    /\ \E i \in 1..Len(lines) : CR \in Range(lines[i])
    /\ headers = Join(lines, <<CR, LF>>)
    /\ header_lines = lines

(***************************************************************************)
(* C8: when a line parses to Ok((name, value)), the line name ":" value    *)
(* parses to the same Ok((name, value)).                                   *)
(***************************************************************************)
C8_ReparseIdempotent ==
    pc = "reparsed" => result = first

\* A pair whose value keeps an interior space has been re-parsed.
C8_Witness ==
    /\ pc = "reparsed"
    /\ first.kind = "Ok"
    /\ 32 \in Range(first.value)
    /\ result = first

(***************************************************************************)
(* C9: for a line N ":" V with N a non-empty token and V a non-empty       *)
(* string of bytes in 0x21-0x7E or 0x80-0xFF, the result is Ok((N, V)).    *)
(***************************************************************************)
C9_ObsTextAccepted ==
    (/\ Parsed
     /\ TokenName(header_line)
     /\ Remainder(header_line) # <<>>
     /\ Range(Remainder(header_line)) \subseteq (Vchar \cup ObsText))
    => result = Ok(NamePart(header_line), Remainder(header_line))

(***************************************************************************)
(* C10: is_tchar(b) holds exactly for ALPHA, DIGIT and the 15 token        *)
(* symbols; so it is false for ":", SP, HTAB, every CTL, every byte from   *)
(* 0x80 up and every delimiter, and every tchar is a VCHAR.                *)
(***************************************************************************)
C10_TcharClass ==
    (pc = "classified" /\ verdict.predicate = "is_tchar") =>
        /\ verdict.value <=> c \in Tchar
        /\ c \in ({COLON, 32, 9} \cup Ctl \cup ObsText \cup Delimiters) => ~verdict.value
        /\ verdict.value => c \in Vchar

\* The last token symbol, "~", has been classified a tchar.
C10_Witness ==
    /\ pc = "classified"
    /\ verdict.predicate = "is_tchar"
    /\ c = 126
    /\ verdict.value

====
